---- MODULE Spec2Model ----
(***************************************************************************)
(* Verification model of eventdripper/signing.py: the signature header     *)
(* parser (_parse_header), the HMAC signer (_compute_signature), the        *)
(* notification builder (_build_notification) and the orchestrator          *)
(* (construct_notification), together with the module globals               *)
(* SigningVersion and SigningToleranceSeconds and the context manager       *)
(* disable_tolerance of tests/eventdripper/test_signing.py that rewrites    *)
(* the latter.                                                              *)
(*                                                                         *)
(* A Python str is a sequence of symbols.  A symbol is a one-character      *)
(* string ("t", "=", ","), except that the 64 hexadecimal characters of a   *)
(* digest and the raw text of a payload are each carried as one symbol.     *)
(***************************************************************************)
EXTENDS Integers, Sequences, FiniteSets, TLC

VARIABLES
    pc,                       \* per call: the statement the call is at
    payload,                  \* per call: argument payload
    header,                   \* per call: argument header
    secret,                   \* per call: argument secret
    signed_header,            \* per call: local signed_header
    tol_at_call,              \* per call: the global's value when the call began (history)
    tol_read,                 \* per call: first load of SigningToleranceSeconds (line 20)
    now_read,                 \* per call: value returned by time.time() (line 20)
    expected_signature,       \* per call: local expected_signature
    idx,                      \* per call: position of the for loop of line 25
    result,                   \* per call: what the call returned or raised
    SigningToleranceSeconds,  \* module global, signing.py line 14
    SigningVersion,           \* module global, signing.py line 13
    now,                      \* the wall clock read by time.time()
    tpc,                      \* disable_tolerance: position in the context manager
    cur                       \* disable_tolerance: local cur

vars == <<pc, payload, header, secret, signed_header, tol_at_call, tol_read, now_read,
          expected_signature, idx, result, SigningToleranceSeconds, SigningVersion,
          now, tpc, cur>>

callvars == <<pc, payload, header, secret, signed_header, tol_at_call, tol_read,
              now_read, expected_signature, idx, result>>

(***************************************************************************)
(* Bounds of the model.                                                    *)
(***************************************************************************)
NumCalls == 2          \* concurrent calls of construct_notification
ClockStart == 1000     \* time.time() when the model starts
MaxTicks == 1          \* seconds the clock may advance
MaxPairs == 3          \* key=value elements in a header given to construct_notification
MaxParsePairs == 3     \* key=value elements in a header given to _parse_header alone
MaxEvents == 2         \* events in a payload given to _build_notification

DefaultTolerance == 300

Procs == 1 .. NumCalls
MainProc == CHOOSE p \in Procs : \A q \in Procs : p <= q

(***************************************************************************)
(* Text helpers: str.split, int(), f'{int}'.                               *)
(***************************************************************************)
NonAscii == {"e-acute"}
Digits == <<"0", "1", "2", "3", "4", "5", "6", "7", "8", "9">>
IsDigit(c) == \E d \in 1 .. 10 : Digits[d] = c
DigitValue(c) == (CHOOSE d \in 1 .. 10 : Digits[d] = c) - 1

\* Position of the first sep in s at or after position i, 0 when there is none.
RECURSIVE Find(_, _, _)
Find(s, sep, i) ==
    IF i > Len(s) THEN 0
    ELSE IF s[i] = sep THEN i
    ELSE Find(s, sep, i + 1)

\* str.split(sep): every occurrence of sep separates; always at least one part.
RECURSIVE Split(_, _)
Split(s, sep) ==
    LET k == Find(s, sep, 1) IN
    IF k = 0 THEN <<s>>
    ELSE <<SubSeq(s, 1, k - 1)>> \o Split(SubSeq(s, k + 1, Len(s)), sep)

RECURSIVE StripLeft(_)
StripLeft(s) == IF Len(s) > 0 /\ s[1] = " " THEN StripLeft(Tail(s)) ELSE s

RECURSIVE StripRight(_)
StripRight(s) ==
    IF Len(s) > 0 /\ s[Len(s)] = " " THEN StripRight(SubSeq(s, 1, Len(s) - 1)) ELSE s

\* The digits of an int literal: digits, single underscores between digits allowed.
RECURSIVE DigitsOk(_, _)
DigitsOk(s, i) ==
    IF i > Len(s) THEN TRUE
    ELSE IF IsDigit(s[i]) THEN DigitsOk(s, i + 1)
    ELSE s[i] = "_" /\ i > 1 /\ i < Len(s) /\ IsDigit(s[i - 1]) /\ IsDigit(s[i + 1])
         /\ DigitsOk(s, i + 1)

RECURSIVE DigitsValue(_, _, _)
DigitsValue(s, i, acc) ==
    IF i > Len(s) THEN acc
    ELSE IF s[i] = "_" THEN DigitsValue(s, i + 1, acc)
    ELSE DigitsValue(s, i + 1, 10 * acc + DigitValue(s[i]))

\* int(value): surrounding blanks stripped, an optional sign, base-10 digits;
\* anything else is a ValueError (ok = FALSE).
ParseInt(value) ==
    LET s == StripRight(StripLeft(value))
        signed == Len(s) > 0 /\ s[1] \in {"+", "-"}
        body == IF signed THEN Tail(s) ELSE s
    IN  IF Len(body) = 0 \/ ~DigitsOk(body, 1)
        THEN [ok |-> FALSE, value |-> 0]
        ELSE [ok |-> TRUE,
              value |-> IF signed /\ s[1] = "-" THEN 0 - DigitsValue(body, 1, 0)
                        ELSE DigitsValue(body, 1, 0)]

RECURSIVE NatToStr(_)
NatToStr(n) ==
    IF n < 10 THEN <<Digits[n + 1]>> ELSE NatToStr(n \div 10) \o <<Digits[(n % 10) + 1]>>

\* f'{timestamp}' for an int.
IntToStr(n) == IF n < 0 THEN <<"-">> \o NatToStr(0 - n) ELSE NatToStr(n)

(***************************************************************************)
(* _parse_header, signing.py lines 68-94.                                  *)
(***************************************************************************)
Raise(error, reason) == [ok |-> FALSE, error |-> error, reason |-> reason]
Return(value) == [ok |-> TRUE, value |-> value]

\* SignedHeader(timestamp=None, signatures=[])
EmptySignedHeader == [timestamp_is_none |-> TRUE, timestamp |-> 0, signatures |-> <<>>]

\* Fault: pair.split('=', 1), the split stops at the first '='.
SplitPairFirstOnly(pair) ==
    LET k == Find(pair, "=", 1) IN
    IF k = 0 THEN <<pair>> ELSE <<SubSeq(pair, 1, k - 1), SubSeq(pair, k + 1, Len(pair))>>

\* parts = pair.split('=')
SplitPair(pair) == Split(pair, "=")

\* Fault: a timestamp already set is kept, the first t wins.
SetTimestampKeepFirst(sh, n) ==
    IF sh.timestamp_is_none THEN [sh EXCEPT !.timestamp_is_none = FALSE, !.timestamp = n]
    ELSE sh

\* signed_header.timestamp = int(value)
SetTimestamp(sh, n) == [sh EXCEPT !.timestamp_is_none = FALSE, !.timestamp = n]

\* elif key == SigningVersion: signed_header.signatures.append(value); else: pass
AppendSignature(sh, key, value, version) ==
    IF key = version THEN [sh EXCEPT !.signatures = Append(@, value)] ELSE sh

\* Fault: only the timestamp is required.
MissingFieldsTimestampOnly(sh) == sh.timestamp_is_none

\* len(signed_header.signatures) == 0 or signed_header.timestamp is None
MissingFields(sh) == Len(sh.signatures) = 0 \/ sh.timestamp_is_none

\* The for loop of lines 75-89 from pair i on, then lines 91-94.
RECURSIVE ParsePairs(_, _, _, _)
ParsePairs(pairs, i, sh, version) ==
    IF i > Len(pairs)
    THEN IF MissingFields(sh) THEN Raise("InvalidHeaderError", "missing fields")
         ELSE Return(sh)
    ELSE LET parts == SplitPair(pairs[i]) IN
         IF Len(parts) # 2 THEN Raise("InvalidHeaderError", "invalid format")
         ELSE LET key == parts[1]
                  value == parts[2]
              IN  IF key = <<"t">>
                  THEN LET n == ParseInt(value) IN
                       IF n.ok THEN ParsePairs(pairs, i + 1, SetTimestamp(sh, n.value), version)
                       ELSE Raise("InvalidHeaderError", "invalid timestamp format")
                  ELSE ParsePairs(pairs, i + 1, AppendSignature(sh, key, value, version),
                                  version)

ParseHeader(h, version) ==
    IF Len(h) = 0 THEN Raise("InvalidHeaderError", "empty header")
    ELSE ParsePairs(Split(h, ","), 1, EmptySignedHeader, version)

(***************************************************************************)
(* _compute_signature, signing.py lines 53-59, and hmac.compare_digest.    *)
(* HMAC-SHA256 is taken to be collision free: the digest of (key, message) *)
(* is one symbol that names both.                                          *)
(***************************************************************************)
\* The raw text of a payload, as one symbol.
PayloadText(p) == ToString(p)

RECURSIVE Concat(_)
Concat(s) == IF Len(s) = 0 THEN "" ELSE Head(s) \o Concat(Tail(s))

\* hmac.new(key, msg, sha256).hexdigest()
HmacHexDigest(key, msg) == <<"hmac(" \o key \o "," \o Concat(msg) \o ")">>

\* Fault: the timestamp is left out of the signed message.
ComputeSignatureOverPayloadOnly(key, timestamp, p) == HmacHexDigest(key, <<PayloadText(p)>>)

\* msg = f'{timestamp}.{payload}'
ComputeSignature(key, timestamp, p) ==
    HmacHexDigest(key, IntToStr(timestamp) \o <<".">> \o <<PayloadText(p)>>)

IsAscii(s) == \A k \in 1 .. Len(s) : s[k] \notin NonAscii

\* hmac.compare_digest(a, b) on two str: a TypeError unless both are ASCII.
CompareDigest(a, b) ==
    IF IsAscii(a) /\ IsAscii(b) THEN Return(a = b) ELSE Raise("TypeError", "non-ASCII")

(***************************************************************************)
(* _build_notification, signing.py lines 32-50.                            *)
(*                                                                         *)
(* A payload is given by what json.loads makes of it: json = "invalid"     *)
(* (JSONDecodeError), json = "other" (a list, a string, a number: not      *)
(* subscriptable by field name) or json = "object" with the set of keys    *)
(* present and the list under "events".  An event is likewise an object    *)
(* with keys, an "at" text and a "data" text, or something else.           *)
(***************************************************************************)
B64Alphabet == {"a", "b"}
B64Pad == "="

\* binascii.a2b_base64 in its default (non-strict) mode: symbols outside the
\* alphabet are skipped, padding ends the input once a quad is complete.
RECURSIVE B64Scan(_, _, _, _, _)
B64Scan(s, i, quad_pos, pads, out) ==
    IF i > Len(s)
    THEN IF quad_pos # 0 THEN Raise("binascii.Error", "incorrect padding") ELSE Return(out)
    ELSE IF s[i] = B64Pad
    THEN IF quad_pos >= 2 /\ quad_pos + pads + 1 >= 4 THEN Return(out)
         ELSE B64Scan(s, i + 1, quad_pos, IF quad_pos >= 2 THEN pads + 1 ELSE pads, out)
    ELSE IF s[i] \notin B64Alphabet THEN B64Scan(s, i + 1, quad_pos, pads, out)
    ELSE B64Scan(s, i + 1, (quad_pos + 1) % 4, 0, Append(out, s[i]))

\* base64.b64decode(s) for a str: non-ASCII is a ValueError, then a2b_base64.
B64Decode(s) ==
    IF ~IsAscii(s) THEN Raise("ValueError", "non-ASCII") ELSE B64Scan(s, 1, 0, 0, <<>>)

\* eventdripper.rfc3339.parse_datetime: the instant of an RFC 3339 text, a
\* parse error on anything else.
Rfc3339Texts == {"2020-10-09T13:47:17.321618Z", "2019-02-25T09:41:12.321618Z"}
ParseDatetime(at) ==
    IF at \in Rfc3339Texts THEN Return([instant |-> at]) ELSE Raise("ValueError", "at")

\* Event(at=parse_datetime(event['at']), name=event['name'],
\*       data=base64.b64decode(event['data']))
DecodeEvent(event) ==
    IF event.kind # "object" THEN Raise("TypeError", "event")
    ELSE IF "at" \notin event.keys THEN Raise("KeyError", "at")
    ELSE LET at == ParseDatetime(event.at) IN
         IF ~at.ok THEN at
         ELSE IF "name" \notin event.keys THEN Raise("KeyError", "name")
         ELSE IF "data" \notin event.keys THEN Raise("KeyError", "data")
         ELSE LET data == B64Decode(event.data) IN
              IF ~data.ok THEN data
              ELSE Return([at |-> at.value, name |-> "event name", data |-> data.value])

\* The for loop of lines 37-42 from event i on.
RECURSIVE DecodeEvents(_, _, _)
DecodeEvents(events, i, out) ==
    IF i > Len(events) THEN Return(out)
    ELSE LET e == DecodeEvent(events[i]) IN
         IF ~e.ok THEN e ELSE DecodeEvents(events, i + 1, Append(out, e.value))

\* The body of the try block, lines 34-48.
TryBuildNotification(p) ==
    IF p.json = "invalid" THEN Raise("JSONDecodeError", "payload")
    ELSE IF p.json # "object" THEN Raise("TypeError", "payload")
    ELSE IF "events" \notin p.keys THEN Raise("KeyError", "events")
    ELSE LET events == DecodeEvents(p.events, 1, <<>>) IN
         IF ~events.ok THEN events
         ELSE IF "trigger_name" \notin p.keys THEN Raise("KeyError", "trigger_name")
         ELSE IF "entity_id" \notin p.keys THEN Raise("KeyError", "entity_id")
         ELSE Return([trigger_name |-> "trigger name", entity_id |-> "entity id",
                      events |-> events.value])

\* except Exception as e: raise InvalidPayloadFormatError(e)
BuildNotification(p) ==
    LET r == TryBuildNotification(p) IN
    IF r.ok THEN r ELSE Raise("InvalidPayloadFormatError", r.error)

(***************************************************************************)
(* construct_notification, signing.py lines 17-29, as one sequential run   *)
(* with the clock at `clock` and the tolerance at `tolerance`.             *)
(***************************************************************************)
\* Fault: <= in place of <.
ExpiredInclusive(timestamp, clock, tolerance) == timestamp <= clock - tolerance

\* signed_header.timestamp < time.time() - SigningToleranceSeconds
Expired(timestamp, clock, tolerance) == timestamp < clock - tolerance

\* The for loop of lines 25-27 from candidate i on, then line 29.
RECURSIVE VerifyFrom(_, _, _, _)
VerifyFrom(expected, signatures, i, p) ==
    IF i > Len(signatures) THEN Raise("InvalidSignatureError", "")
    ELSE LET c == CompareDigest(expected, signatures[i]) IN
         IF ~c.ok THEN c
         ELSE IF c.value THEN BuildNotification(p)
         ELSE VerifyFrom(expected, signatures, i + 1, p)

ConstructNotification(p, h, key, clock, tolerance, version) ==
    LET parsed == ParseHeader(h, version) IN
    IF ~parsed.ok THEN parsed
    ELSE IF tolerance # 0 /\ Expired(parsed.value.timestamp, clock, tolerance)
    THEN Raise("SignatureExpiredError", "")
    ELSE VerifyFrom(ComputeSignature(key, parsed.value.timestamp, p),
                    parsed.value.signatures, 1, p)

(***************************************************************************)
(* Inputs.  Headers are written the way the tests write them: the sender   *)
(* signs (timestamp, payload) with its secret and sends                    *)
(* f't={timestamp},v1={signature}', possibly altered on the way.           *)
(***************************************************************************)
Kv(key, value) == key \o <<"=">> \o value

RECURSIVE Join(_, _)
Join(parts, sep) ==
    IF Len(parts) = 0 THEN <<>>
    ELSE IF Len(parts) = 1 THEN parts[1]
    ELSE parts[1] \o <<sep>> \o Join(Tail(parts), sep)

SeqsUpTo(S, n) == UNION {[1 .. m -> S] : m \in 0 .. n}

EdgeTimestamp == ClockStart - DefaultTolerance
OldTimestamp == EdgeTimestamp - 1
FutureTimestamp == ClockStart + 10
HeaderTimestamps == {EdgeTimestamp, FutureTimestamp}
SignedTimestamps == {EdgeTimestamp}

SenderSecret == "top secret"
Secrets == {SenderSecret, "wrong secret"}

GoodEvent ==
    [kind |-> "object", keys |-> {"at", "name", "data"},
     at |-> "2020-10-09T13:47:17.321618Z", data |-> <<"a", "a", "=", "=">>]
ValidPayload ==
    [json |-> "object", keys |-> {"trigger_name", "entity_id", "events"},
     events |-> <<GoodEvent>>]
InvalidJsonPayload == [json |-> "invalid", keys |-> {}, events |-> <<>>]
CallPayloads == {ValidPayload, InvalidJsonPayload}

CallElements(signature) ==
    {Kv(<<"t">>, IntToStr(ts)) : ts \in HeaderTimestamps}
        \cup {Kv(<<"v", "1">>, signature), Kv(<<"v", "1">>, <<"x">>),
              Kv(<<"v", "1">>, <<"e-acute">>)}

\* What construct_notification is called with in the sequential runs.
CallInputs ==
    UNION {{[payload |-> p, header |-> Join(elems, ","), secret |-> k] :
                elems \in SeqsUpTo(CallElements(ComputeSignature(SenderSecret, ts, p)),
                                   MaxPairs),
                k \in Secrets} :
           ts \in SignedTimestamps, p \in CallPayloads}

SignedHeaderText(ts, p) ==
    Join(<<Kv(<<"t">>, IntToStr(ts)),
           Kv(<<"v", "1">>, ComputeSignature(SenderSecret, ts, p))>>, ",")

\* What the concurrent calls are called with.
ConcurrentInputs ==
    {[payload |-> ValidPayload, header |-> SignedHeaderText(EdgeTimestamp, ValidPayload),
      secret |-> SenderSecret],
     [payload |-> ValidPayload, header |-> SignedHeaderText(OldTimestamp, ValidPayload),
      secret |-> SenderSecret],
     [payload |-> InvalidJsonPayload,
      header |-> SignedHeaderText(EdgeTimestamp, InvalidJsonPayload),
      secret |-> SenderSecret]}

\* Elements of the headers given to _parse_header alone.
ParseElements ==
    {Kv(<<"t">>, <<"1">>), Kv(<<"t">>, <<"2">>), Kv(<<"t">>, <<"x">>), Kv(<<"t">>, <<>>),
     Kv(<<"t">>, <<" ", "-", "7">>), Kv(<<"t">>, <<"1", "=", "2">>),
     Kv(<<"v", "1">>, <<"a">>), Kv(<<"v", "1">>, <<"b">>), Kv(<<"v", "1">>, <<>>),
     Kv(<<"v", "1">>, <<"a", "=", "b">>),
     Kv(<<"v", "0">>, <<"a">>), Kv(<<>>, <<"a">>),
     <<>>, <<"t">>, <<"v", "1">>}
ParseHeaders == {Join(elems, ",") : elems \in SeqsUpTo(ParseElements, MaxParsePairs)}

\* Payloads given to _build_notification alone.
DataTexts ==
    {<<>>, <<"a", "a", "a", "a">>, <<"a", "b", "=", "=">>, <<"a", "a", "a">>, <<"a">>,
     <<"!", "!", "!", "!">>, <<"a", "b", "=", "=", "!">>, <<"e-acute">>}
BuildEvents ==
    {[kind |-> "other", keys |-> {}, at |-> "", data |-> <<>>]}
        \cup {[kind |-> "object", keys |-> ks, at |-> at, data |-> <<"a", "a", "a", "a">>] :
                ks \in {{"at", "name", "data"}, {"name", "data"}, {"at", "data"}, {"at", "name"}},
                at \in {"2020-10-09T13:47:17.321618Z", "yesterday"}}
        \cup {[kind |-> "object", keys |-> {"at", "name", "data"},
               at |-> "2019-02-25T09:41:12.321618Z", data |-> d] : d \in DataTexts}
BuildPayloads ==
    {InvalidJsonPayload, [json |-> "other", keys |-> {}, events |-> <<>>]}
        \cup {[json |-> "object", keys |-> ks, events |-> es] :
                ks \in {{"trigger_name", "entity_id", "events"}, {"entity_id", "events"},
                        {"trigger_name", "events"}},
                es \in SeqsUpTo(BuildEvents, MaxEvents)}
        \cup {[json |-> "object", keys |-> {"trigger_name", "entity_id"}, events |-> <<>>]}

(***************************************************************************)
(* The state machine.                                                      *)
(***************************************************************************)
NoResult == [ok |-> FALSE, error |-> "none", reason |-> ""]
NoPayload == [json |-> "none", keys |-> {}, events |-> <<>>]

InitGlobals ==
    /\ SigningToleranceSeconds = DefaultTolerance
    /\ SigningVersion = <<"v", "1">>
    /\ now = ClockStart
    /\ tpc = "out"
    /\ cur = 0

InitLocals ==
    /\ signed_header = [p \in Procs |-> EmptySignedHeader]
    /\ tol_at_call = [p \in Procs |-> 0]
    /\ tol_read = [p \in Procs |-> 0]
    /\ now_read = [p \in Procs |-> 0]
    /\ expected_signature = [p \in Procs |-> <<>>]
    /\ idx = [p \in Procs |-> 0]
    /\ result = [p \in Procs |-> NoResult]
    /\ secret = [p \in Procs |-> ""]

\* No call has begun.
Init ==
    /\ InitGlobals
    /\ InitLocals
    /\ pc = [p \in Procs |-> "idle"]
    /\ payload = [p \in Procs |-> NoPayload]
    /\ header = [p \in Procs |-> <<>>]

\* test_parse_header: _parse_header is about to be applied to a header.
InitParse ==
    /\ InitGlobals
    /\ InitLocals
    /\ pc = [p \in Procs |-> IF p = MainProc THEN "parse_only" ELSE "idle"]
    /\ payload = [p \in Procs |-> NoPayload]
    /\ \E h \in ParseHeaders : header = [p \in Procs |-> IF p = MainProc THEN h ELSE <<>>]

\* _build_notification is about to be applied to a payload.
InitBuild ==
    /\ InitGlobals
    /\ InitLocals
    /\ pc = [p \in Procs |-> IF p = MainProc THEN "build_only" ELSE "idle"]
    /\ header = [p \in Procs |-> <<>>]
    /\ \E b \in BuildPayloads :
          payload = [p \in Procs |-> IF p = MainProc THEN b ELSE NoPayload]

InFlight(p) == pc[p] \notin {"idle", "returned", "raised"}
Finish(p, r) ==
    /\ result' = [result EXCEPT ![p] = r]
    /\ pc' = [pc EXCEPT ![p] = IF r.ok THEN "returned" ELSE "raised"]

\* construct_notification(payload, header, secret) is entered.
Call(p, inputs) ==
    /\ pc[p] = "idle"
    /\ \E c \in inputs :
          /\ payload' = [payload EXCEPT ![p] = c.payload]
          /\ header' = [header EXCEPT ![p] = c.header]
          /\ secret' = [secret EXCEPT ![p] = c.secret]
    /\ tol_at_call' = [tol_at_call EXCEPT ![p] = SigningToleranceSeconds]
    /\ pc' = [pc EXCEPT ![p] = "parse"]
    /\ UNCHANGED <<signed_header, tol_read, now_read, expected_signature, idx, result,
                   SigningToleranceSeconds, SigningVersion, now, tpc, cur>>

\* Fault: one SignedHeader object is shared by all calls.
ParseStepShared(p) ==
    /\ pc[p] = "parse"
    /\ LET r == ParseHeader(header[p], SigningVersion) IN
       IF r.ok
       THEN /\ signed_header' = [q \in Procs |-> r.value]
            /\ pc' = [pc EXCEPT ![p] = "load_tolerance"]
            /\ UNCHANGED result
       ELSE /\ Finish(p, r)
            /\ UNCHANGED signed_header
    /\ UNCHANGED <<payload, header, secret, tol_at_call, tol_read, now_read,
                   expected_signature, idx, SigningToleranceSeconds, SigningVersion,
                   now, tpc, cur>>

\* line 18: signed_header = _parse_header(header)
ParseStep(p) ==
    /\ pc[p] = "parse"
    /\ LET r == ParseHeader(header[p], SigningVersion) IN
       IF r.ok
       THEN /\ signed_header' = [signed_header EXCEPT ![p] = r.value]
            /\ pc' = [pc EXCEPT ![p] = "load_tolerance"]
            /\ UNCHANGED result
       ELSE /\ Finish(p, r)
            /\ UNCHANGED signed_header
    /\ UNCHANGED <<payload, header, secret, tol_at_call, tol_read, now_read,
                   expected_signature, idx, SigningToleranceSeconds, SigningVersion,
                   now, tpc, cur>>

\* line 20, left operand of `and`: SigningToleranceSeconds is loaded and tested.
LoadTolerance(p) ==
    /\ pc[p] = "load_tolerance"
    /\ tol_read' = [tol_read EXCEPT ![p] = SigningToleranceSeconds]
    /\ pc' = [pc EXCEPT ![p] = IF SigningToleranceSeconds # 0 THEN "read_clock" ELSE "sign"]
    /\ UNCHANGED <<payload, header, secret, signed_header, tol_at_call, now_read,
                   expected_signature, idx, result, SigningToleranceSeconds,
                   SigningVersion, now, tpc, cur>>

\* line 20, right operand: time.time() is called.
ReadClock(p) ==
    /\ pc[p] = "read_clock"
    /\ now_read' = [now_read EXCEPT ![p] = now]
    /\ pc' = [pc EXCEPT ![p] = "check_expiry"]
    /\ UNCHANGED <<payload, header, secret, signed_header, tol_at_call, tol_read,
                   expected_signature, idx, result, SigningToleranceSeconds,
                   SigningVersion, now, tpc, cur>>

\* line 20, right operand: SigningToleranceSeconds is loaded again, subtracted and
\* compared; line 21.
CheckExpiry(p) ==
    /\ pc[p] = "check_expiry"
    /\ IF Expired(signed_header[p].timestamp, now_read[p], SigningToleranceSeconds)
       THEN Finish(p, Raise("SignatureExpiredError", ""))
       ELSE /\ pc' = [pc EXCEPT ![p] = "sign"]
            /\ UNCHANGED result
    /\ UNCHANGED <<payload, header, secret, signed_header, tol_at_call, tol_read, now_read,
                   expected_signature, idx, SigningToleranceSeconds, SigningVersion,
                   now, tpc, cur>>

\* line 23: expected_signature = _compute_signature(...)
SignStep(p) ==
    /\ pc[p] = "sign"
    /\ expected_signature' =
          [expected_signature EXCEPT
              ![p] = ComputeSignature(secret[p], signed_header[p].timestamp, payload[p])]
    /\ idx' = [idx EXCEPT ![p] = 1]
    /\ pc' = [pc EXCEPT ![p] = "compare"]
    /\ UNCHANGED <<payload, header, secret, signed_header, tol_at_call, tol_read, now_read,
                   result, SigningToleranceSeconds, SigningVersion, now, tpc, cur>>

\* lines 25-26 for one candidate, and line 29 once the candidates are exhausted.
CompareStep(p) ==
    /\ pc[p] = "compare"
    /\ IF idx[p] > Len(signed_header[p].signatures)
       THEN /\ Finish(p, Raise("InvalidSignatureError", ""))
            /\ UNCHANGED idx
       ELSE LET c == CompareDigest(expected_signature[p],
                                   signed_header[p].signatures[idx[p]]) IN
            IF ~c.ok THEN Finish(p, c) /\ UNCHANGED idx
            ELSE IF c.value
            THEN /\ pc' = [pc EXCEPT ![p] = "build"]
                 /\ UNCHANGED <<idx, result>>
            ELSE /\ idx' = [idx EXCEPT ![p] = idx[p] + 1]
                 /\ UNCHANGED <<pc, result>>
    /\ UNCHANGED <<payload, header, secret, signed_header, tol_at_call, tol_read, now_read,
                   expected_signature, SigningToleranceSeconds, SigningVersion, now, tpc,
                   cur>>

\* line 27: return _build_notification(payload)
BuildStep(p) ==
    /\ pc[p] = "build"
    /\ Finish(p, BuildNotification(payload[p]))
    /\ UNCHANGED <<payload, header, secret, signed_header, tol_at_call, tol_read, now_read,
                   expected_signature, idx, SigningToleranceSeconds, SigningVersion, now,
                   tpc, cur>>

\* _parse_header(header) called on its own.
ParseOnly(p) ==
    /\ pc[p] = "parse_only"
    /\ LET r == ParseHeader(header[p], SigningVersion) IN
       /\ Finish(p, r)
       /\ signed_header' = [signed_header EXCEPT ![p] = IF r.ok THEN r.value ELSE @]
    /\ UNCHANGED <<payload, header, secret, tol_at_call, tol_read, now_read,
                   expected_signature, idx, SigningToleranceSeconds, SigningVersion, now,
                   tpc, cur>>

\* _build_notification(payload) called on its own.
BuildOnly(p) ==
    /\ pc[p] = "build_only"
    /\ Finish(p, BuildNotification(payload[p]))
    /\ UNCHANGED <<payload, header, secret, signed_header, tol_at_call, tol_read, now_read,
                   expected_signature, idx, SigningToleranceSeconds, SigningVersion, now,
                   tpc, cur>>

\* A second passes.
Tick ==
    /\ now < ClockStart + MaxTicks
    /\ now' = now + 1
    /\ UNCHANGED <<callvars, SigningToleranceSeconds, SigningVersion, tpc, cur>>

\* disable_tolerance up to its yield: cur = SigningToleranceSeconds;
\* SigningToleranceSeconds = 0.  `alone` says that no call may be in flight.
DisableToleranceEnter(alone) ==
    /\ tpc = "out"
    /\ alone => \A p \in Procs : ~InFlight(p)
    /\ cur' = SigningToleranceSeconds
    /\ SigningToleranceSeconds' = 0
    /\ tpc' = "in"
    /\ UNCHANGED <<callvars, SigningVersion, now>>

\* disable_tolerance after its yield: SigningToleranceSeconds = cur.
DisableToleranceExit(alone) ==
    /\ tpc = "in"
    /\ alone => \A p \in Procs : ~InFlight(p)
    /\ SigningToleranceSeconds' = cur
    /\ tpc' = "out"
    /\ UNCHANGED <<callvars, SigningVersion, now, cur>>

CallSteps(p) ==
    \/ ParseStep(p)
    \/ LoadTolerance(p)
    \/ ReadClock(p)
    \/ CheckExpiry(p)
    \/ SignStep(p)
    \/ CompareStep(p)
    \/ BuildStep(p)

\* The test suite: one thread, which calls construct_notification and enters and
\* leaves disable_tolerance between calls.
Next ==
    \/ Call(MainProc, CallInputs)
    \/ CallSteps(MainProc)
    \/ Tick
    \/ DisableToleranceEnter(TRUE)
    \/ DisableToleranceExit(TRUE)

Spec == Init /\ [][Next]_vars

\* Several threads call construct_notification; the tolerance is rewritten only
\* while none of them is inside a call.
NextCalls ==
    \/ \E p \in Procs : Call(p, ConcurrentInputs)
    \/ \E p \in Procs : CallSteps(p)
    \/ Tick
    \/ DisableToleranceEnter(TRUE)
    \/ DisableToleranceExit(TRUE)

SpecCalls == Init /\ [][NextCalls]_vars

\* Several threads call construct_notification while another thread enters and
\* leaves disable_tolerance.
NextRace ==
    \/ \E p \in Procs : Call(p, ConcurrentInputs)
    \/ \E p \in Procs : CallSteps(p)
    \/ Tick
    \/ DisableToleranceEnter(FALSE)
    \/ DisableToleranceExit(FALSE)

SpecRace == Init /\ [][NextRace]_vars

NextParse == ParseOnly(MainProc)

SpecParse == InitParse /\ [][NextParse]_vars

NextBuild == BuildOnly(MainProc)

SpecBuild == InitBuild /\ [][NextBuild]_vars

(***************************************************************************)
(* Vocabulary of the properties.                                           *)
(***************************************************************************)
Done(p) == pc[p] \in {"returned", "raised"}
RaisedWith(p, error) == pc[p] = "raised" /\ result[p].error = error

ElementsOf(h) == Split(h, ",")
CountEq(e) == Cardinality({k \in 1 .. Len(e) : e[k] = "="})
KeyOf(e) == SubSeq(e, 1, Find(e, "=", 1) - 1)
ValueOf(e) == SubSeq(e, Find(e, "=", 1) + 1, Len(e))
Min(S) == CHOOSE x \in S : \A y \in S : x <= y
Max(S) == CHOOSE x \in S : \A y \in S : x >= y

\* What is wrong with one element taken alone.
ElementFault(e) ==
    IF CountEq(e) # 1 THEN "invalid format"
    ELSE IF KeyOf(e) = <<"t">> /\ ~ParseInt(ValueOf(e)).ok THEN "invalid timestamp format"
    ELSE "none"
FaultyElements(h) ==
    {k \in 1 .. Len(ElementsOf(h)) : ElementFault(ElementsOf(h)[k]) # "none"}
WellFormedHeader(h) == Len(h) > 0 /\ FaultyElements(h) = {}
ElementsWithKey(h, key) ==
    {k \in 1 .. Len(ElementsOf(h)) :
        CountEq(ElementsOf(h)[k]) >= 1 /\ KeyOf(ElementsOf(h)[k]) = key}

RECURSIVE ValuesOf(_)
ValuesOf(es) == IF Len(es) = 0 THEN <<>> ELSE <<ValueOf(Head(es))>> \o ValuesOf(Tail(es))
V1Values(h) ==
    ValuesOf(SelectSeq(ElementsOf(h), LAMBDA e : CountEq(e) >= 1 /\ KeyOf(e) = <<"v", "1">>))

\* The timestamp and the candidates a call works with, read off its header.
TimestampOf(p) == ParseHeader(header[p], SigningVersion).value.timestamp
CandidatesOf(p) == ParseHeader(header[p], SigningVersion).value.signatures
HeaderParses(p) == ParseHeader(header[p], SigningVersion).ok
TooOld(p) == tol_at_call[p] # 0 /\ TimestampOf(p) < now_read[p] - tol_at_call[p]
SomeCandidateMatches(p) ==
    \E k \in 1 .. Len(CandidatesOf(p)) :
        CandidatesOf(p)[k] = ComputeSignature(secret[p], TimestampOf(p), payload[p])

(***************************************************************************)
(* C1: construct_notification returns a Notification only if the header    *)
(* parsed, one of its v1 candidates equals the signature computed over the *)
(* header's own timestamp and the payload, and, with a non-zero tolerance,  *)
(* the timestamp is not older than now - tolerance; a header all of whose   *)
(* candidates were computed over another timestamp yields no Notification.  *)
(***************************************************************************)
C1_NotificationOnlyIfVerified ==
    \A p \in Procs :
        pc[p] = "returned" =>
            /\ HeaderParses(p)
            /\ SomeCandidateMatches(p)
            /\ tol_at_call[p] # 0 => TimestampOf(p) >= now_read[p] - tol_at_call[p]
            /\ \A t \in SignedTimestamps \ {TimestampOf(p)} :
                  ~ \A k \in 1 .. Len(CandidatesOf(p)) :
                        CandidatesOf(p)[k] = ComputeSignature(SenderSecret, t, payload[p])

\* A Notification is returned for a timestamp exactly at now - tolerance.
C1_Witness ==
    \E p \in Procs :
        /\ pc[p] = "returned"
        /\ tol_at_call[p] = DefaultTolerance
        /\ TimestampOf(p) = now_read[p] - DefaultTolerance

(***************************************************************************)
(* C2: the error raised is that of the earliest failing stage, in the      *)
(* order header parsing (InvalidHeader), freshness (SignatureExpired),      *)
(* signature comparison (InvalidSignature), payload decoding                *)
(* (InvalidPayloadFormat); with no failing stage a Notification is          *)
(* returned.                                                                *)
(***************************************************************************)
EarliestFailure(p) ==
    IF ~HeaderParses(p) THEN "InvalidHeaderError"
    ELSE IF TooOld(p) THEN "SignatureExpiredError"
    ELSE IF ~SomeCandidateMatches(p) THEN "InvalidSignatureError"
    ELSE IF ~BuildNotification(payload[p]).ok THEN "InvalidPayloadFormatError"
    ELSE "none"

C2_EarliestStageError ==
    \A p \in Procs :
        Done(p) =>
            IF EarliestFailure(p) = "none" THEN pc[p] = "returned"
            ELSE RaisedWith(p, EarliestFailure(p))

(***************************************************************************)
(* C3: for a header that parses and is fresh, the call fails with           *)
(* InvalidSignature and nothing else if no candidate equals the expected    *)
(* signature, and goes on to payload decoding if one does, wherever it is.  *)
(***************************************************************************)
C3_InvalidSignatureOnly ==
    \A p \in Procs :
        (Done(p) /\ HeaderParses(p) /\ ~TooOld(p)) =>
            IF SomeCandidateMatches(p)
            THEN pc[p] = "returned" \/ RaisedWith(p, "InvalidPayloadFormatError")
            ELSE RaisedWith(p, "InvalidSignatureError")

(***************************************************************************)
(* C4: for a header that parses, the call fails with SignatureExpired       *)
(* exactly when the tolerance is non-zero and timestamp < now - tolerance,  *)
(* whatever the signature; a call that got past the check is not too old.   *)
(***************************************************************************)
C4_ExpiredExactlyWhenTooOld ==
    \A p \in Procs :
        /\ (Done(p) /\ HeaderParses(p)) => (RaisedWith(p, "SignatureExpiredError") <=> TooOld(p))
        /\ pc[p] \in {"sign", "compare", "build"} => ~TooOld(p)

\* A header older than now - tolerance with a correct signature is rejected as expired.
C4_Witness ==
    \E p \in Procs :
        /\ RaisedWith(p, "SignatureExpiredError")
        /\ tol_at_call[p] = DefaultTolerance
        /\ TimestampOf(p) = now_read[p] - DefaultTolerance - 1
        /\ SomeCandidateMatches(p)

(***************************************************************************)
(* C5 as stated: a header is rejected with 'invalid format' only if one of  *)
(* its elements contains no '='.                                            *)
(***************************************************************************)
C5_OnlyElementsWithoutEq ==
    RaisedWith(MainProc, "InvalidHeaderError") /\ result[MainProc].reason = "invalid format"
        => \E k \in 1 .. Len(ElementsOf(header[MainProc])) :
              CountEq(ElementsOf(header[MainProc])[k]) = 0

(***************************************************************************)
(* C5 amended: every element is split on every '='; the header is rejected  *)
(* with 'invalid format' exactly when the first element the parser cannot   *)
(* take is one that does not contain exactly one '=' (none, or two or       *)
(* more), and every element of an accepted header contains exactly one.     *)
(***************************************************************************)
C5_ExactlyOneEq ==
    LET h == header[MainProc]
        es == ElementsOf(h)
    IN  Done(MainProc) =>
            /\ (RaisedWith(MainProc, "InvalidHeaderError")
                    /\ result[MainProc].reason = "invalid format")
                <=> (/\ Len(h) > 0
                     /\ FaultyElements(h) # {}
                     /\ CountEq(es[Min(FaultyElements(h))]) # 1)
            /\ pc[MainProc] = "returned" => \A k \in 1 .. Len(es) : CountEq(es[k]) = 1

\* A header whose only fault is an element with two '=' is rejected with 'invalid format'.
C5_Witness ==
    /\ RaisedWith(MainProc, "InvalidHeaderError")
    /\ result[MainProc].reason = "invalid format"
    /\ \A k \in 1 .. Len(ElementsOf(header[MainProc])) :
          CountEq(ElementsOf(header[MainProc])[k]) >= 1
    /\ \E k \in 1 .. Len(ElementsOf(header[MainProc])) :
          CountEq(ElementsOf(header[MainProc])[k]) = 2

(***************************************************************************)
(* C6: an accepted header yields as signatures the values of exactly its    *)
(* v1 elements, in order, duplicates kept, and as timestamp the integer     *)
(* value of its last t element.                                             *)
(***************************************************************************)
C6_SignaturesAndLastTimestamp ==
    LET h == header[MainProc]
        es == ElementsOf(h)
    IN  pc[MainProc] = "returned" =>
            /\ result[MainProc].value.signatures = V1Values(h)
            /\ ElementsWithKey(h, <<"t">>) # {}
            /\ result[MainProc].value.timestamp
                  = ParseInt(ValueOf(es[Max(ElementsWithKey(h, <<"t">>))])).value

\* An accepted header with two t elements of different values.
C6_Witness ==
    LET h == header[MainProc]
        es == ElementsOf(h)
    IN  /\ pc[MainProc] = "returned"
        /\ \E j, k \in ElementsWithKey(h, <<"t">>) :
              j < k /\ ParseInt(ValueOf(es[j])).value # ParseInt(ValueOf(es[k])).value

(***************************************************************************)
(* C7: _build_notification either returns a complete Notification or        *)
(* raises InvalidPayloadFormat: invalid JSON, a missing top-level field, or *)
(* a missing field, a malformed timestamp or malformed base64 in any event  *)
(* raises InvalidPayloadFormat, and a returned Notification holds every     *)
(* event of the payload.                                                    *)
(***************************************************************************)
\* Standard base64: quads of alphabet symbols, the last one padded with at most two '='.
WellFormedB64(s) ==
    /\ Len(s) % 4 = 0
    /\ \A k \in 1 .. Len(s) :
          \/ s[k] \in B64Alphabet
          \/ s[k] = B64Pad /\ k > Len(s) - 2 /\ \A j \in k .. Len(s) : s[j] = B64Pad

WellFormedEvent(e) ==
    /\ e.kind = "object"
    /\ e.keys = {"at", "name", "data"}
    /\ e.at \in Rfc3339Texts
    /\ WellFormedB64(e.data)

WellFormedPayload(b) ==
    /\ b.json = "object"
    /\ b.keys = {"trigger_name", "entity_id", "events"}
    /\ \A k \in 1 .. Len(b.events) : WellFormedEvent(b.events[k])

C7_NotificationOrInvalidPayloadFormat ==
    Done(MainProc) =>
        /\ pc[MainProc] = "returned" \/ RaisedWith(MainProc, "InvalidPayloadFormatError")
        /\ pc[MainProc] = "returned" =>
              Len(result[MainProc].value.events) = Len(payload[MainProc].events)
        /\ ~WellFormedPayload(payload[MainProc]) =>
              RaisedWith(MainProc, "InvalidPayloadFormatError")

(***************************************************************************)
(* C8: concurrent calls are independent: no step of a call changes          *)
(* SigningToleranceSeconds or SigningVersion, and every call ends with the  *)
(* outcome of a run on its own arguments alone, at the clock value it read. *)
(***************************************************************************)
OutcomeAlone(p) ==
    ConstructNotification(payload[p], header[p], secret[p], now_read[p], tol_at_call[p],
                          SigningVersion)

C8_CallsIndependent ==
    /\ [](\A p \in Procs : Done(p) => result[p] = OutcomeAlone(p))
    /\ [][tpc' = tpc => UNCHANGED <<SigningToleranceSeconds, SigningVersion>>]_vars

\* Two calls on different arguments have both ended, with different outcomes.
C8_Witness ==
    \E p, q \in Procs :
        /\ pc[p] = "returned"
        /\ RaisedWith(q, "SignatureExpiredError")
        /\ header[p] # header[q]

(***************************************************************************)
(* C9: a SignedHeader that _parse_header returned has a timestamp and at    *)
(* least one signature, so the freshness check and the signature loop never *)
(* see an absent timestamp or an empty list; a non-empty header of          *)
(* well-formed elements without a t element or without a v1 element is      *)
(* rejected with 'missing fields'.                                          *)
(***************************************************************************)
C9_NoMissingFields ==
    \A p \in Procs :
        /\ pc[p] \in {"load_tolerance", "read_clock", "check_expiry", "sign", "compare",
                      "build", "returned"} =>
              /\ ~signed_header[p].timestamp_is_none
              /\ Len(signed_header[p].signatures) > 0
        /\ (/\ Done(p)
            /\ WellFormedHeader(header[p])
            /\ \/ ElementsWithKey(header[p], <<"t">>) = {}
               \/ ElementsWithKey(header[p], <<"v", "1">>) = {})
              => RaisedWith(p, "InvalidHeaderError") /\ result[p].reason = "missing fields"

\* A well-formed header with a timestamp and no v1 element is rejected.
C9_Witness ==
    \E p \in Procs :
        /\ RaisedWith(p, "InvalidHeaderError")
        /\ result[p].reason = "missing fields"
        /\ WellFormedHeader(header[p])
        /\ ElementsWithKey(header[p], <<"t">>) # {}
        /\ ElementsWithKey(header[p], <<"v", "1">>) = {}

(***************************************************************************)
(* C10: while the tolerance is switched between 300 and 0 by another        *)
(* thread, no call raises SignatureExpired for a header whose timestamp is  *)
(* at least now - 300.                                                      *)
(***************************************************************************)
C10_NoExpiryWithinTolerance ==
    \A p \in Procs :
        RaisedWith(p, "SignatureExpiredError") =>
            signed_header[p].timestamp < now_read[p] - DefaultTolerance

====
